---- MODULE Spec2Model ----
(***************************************************************************)
(* A model of unlib (src/src/unlib/metric.py, src/src/unlib/time_domain.py)*)
(* : metric quantities, durations and frequencies.                         *)
(*                                                                         *)
(* The magnitudes of the library are Python floats, i.e. IEEE-754 binary64 *)
(* numbers.  Several properties of the library (which scale optimize()     *)
(* selects at a band edge, whether two sums computed in different scales   *)
(* compare equal under the 0.001-nano tolerance) depend on the rounding of *)
(* every single multiplication, division, addition and subtraction.  The   *)
(* model therefore computes with binary64 values: a float is a record      *)
(*     [s |-> sign, m |-> mantissa, e |-> exponent]                        *)
(* of value (-1)^s * m * 2^e with 2^52 <= m < 2^53 (or m = 0), and every   *)
(* operation rounds to nearest, ties to even.  The mantissa does not fit   *)
(* TLC's 32-bit integers, so it is a little-endian sequence of limbs in    *)
(* radix 2^15.  Exponent overflow and subnormals are not modelled: the     *)
(* inputs of the model stay within 1e-30 .. 1e30.                          *)
(***************************************************************************)
EXTENDS Integers, Sequences, FiniteSets, TLC

(***************************************************************************)
(* The state.  Importing the two modules evaluates the values of the enum  *)
(* members and ONE_PICOSECOND once; they are module state from then on.    *)
(* The variables of a caller of the library are declared with the state    *)
(* machine below.                                                          *)
(***************************************************************************)
VARIABLES Scale_value, TimeUnit_value, FrequencyUnit_period_in_seconds, ONE_PICOSECOND

globals == <<Scale_value, TimeUnit_value, FrequencyUnit_period_in_seconds, ONE_PICOSECOND>>

(***************************************************************************)
(* Natural numbers of arbitrary size: little-endian limb sequences.        *)
(***************************************************************************)
Base == 2^15

MantBits == 52 + 1

RECURSIVE BNorm(_)
BNorm(a) ==
    IF a = <<>> THEN <<>>
    ELSE IF a[Len(a)] = 0 THEN BNorm(SubSeq(a, 1, Len(a) - 1))
    ELSE a

BFromInt(n) ==
    IF n = 0 THEN <<>>
    ELSE IF n < Base THEN <<n>>
    ELSE IF n < Base * Base THEN <<n % Base, n \div Base>>
    ELSE <<n % Base, (n \div Base) % Base, n \div (Base * Base)>>

Limb(a, i) == IF i >= 1 /\ i <= Len(a) THEN a[i] ELSE 0

RECURSIVE BAddC(_, _, _, _)
BAddC(a, b, i, c) ==
    IF i > Len(a) /\ i > Len(b) THEN (IF c = 0 THEN <<>> ELSE <<c>>)
    ELSE LET t == Limb(a, i) + Limb(b, i) + c
         IN  <<t % Base>> \o BAddC(a, b, i + 1, t \div Base)

BAdd(a, b) == BAddC(a, b, 1, 0)

\* a - b for a >= b
RECURSIVE BSubC(_, _, _, _)
BSubC(a, b, i, c) ==
    IF i > Len(a) THEN <<>>
    ELSE LET t == Limb(a, i) - Limb(b, i) - c
         IN  IF t < 0 THEN <<t + Base>> \o BSubC(a, b, i + 1, 1)
             ELSE <<t>> \o BSubC(a, b, i + 1, 0)

BSub(a, b) == BNorm(BSubC(a, b, 1, 0))

\* -1, 0, 1 as a < b, a = b, a > b (both normalised)
RECURSIVE BCmpAt(_, _, _)
BCmpAt(a, b, i) ==
    IF i = 0 THEN 0
    ELSE IF a[i] < b[i] THEN -1
    ELSE IF a[i] > b[i] THEN 1
    ELSE BCmpAt(a, b, i - 1)

BCmp(a, b) ==
    IF Len(a) < Len(b) THEN -1
    ELSE IF Len(a) > Len(b) THEN 1
    ELSE BCmpAt(a, b, Len(a))

\* a * d for one limb d
RECURSIVE BMulLimbC(_, _, _, _)
BMulLimbC(a, d, i, c) ==
    IF i > Len(a) THEN (IF c = 0 THEN <<>> ELSE <<c>>)
    ELSE LET t == a[i] * d + c
         IN  <<t % Base>> \o BMulLimbC(a, d, i + 1, t \div Base)

BMulLimb(a, d) == IF d = 0 THEN <<>> ELSE BMulLimbC(a, d, 1, 0)

Zeros(k) == [i \in 1..k |-> 0]

BShlLimbs(a, k) == IF a = <<>> THEN <<>> ELSE Zeros(k) \o a

\* the partial sums are computed one limb at a time (Len(acc) >= 0 has the
\* sum evaluated before the next step)
RECURSIVE BMulAt(_, _, _, _)
BMulNext(a, b, i, acc) == IF Len(acc) >= 0 THEN BMulAt(a, b, i, acc) ELSE <<>>

BMulAt(a, b, i, acc) ==
    IF i > Len(b) THEN acc
    ELSE BMulNext(a, b, i + 1, BAdd(acc, BShlLimbs(BMulLimb(a, b[i]), i - 1)))

BMul(a, b) == BMulAt(a, b, 1, <<>>)

BShl(a, k) == BShlLimbs(BMulLimb(a, 2^(k % 15)), k \div 15)

\* floor(a / 2^r) for 0 <= r < 15, limb by limb
BShrBits(a, r) ==
    IF r = 0 THEN a
    ELSE BNorm([i \in 1..Len(a) |->
                  (a[i] \div 2^r) + (Limb(a, i + 1) % 2^r) * 2^(15 - r)])

BShr(a, k) ==
    IF k \div 15 >= Len(a) THEN <<>>
    ELSE BShrBits(SubSeq(a, (k \div 15) + 1, Len(a)), k % 15)

RECURSIVE IntBits(_)
IntBits(n) == IF n = 0 THEN 0 ELSE 1 + IntBits(n \div 2)

BitLen(a) == IF a = <<>> THEN 0 ELSE 15 * (Len(a) - 1) + IntBits(a[Len(a)])

(***************************************************************************)
(* Long division in radix 2^15.  The divisor d is normalised (its top limb *)
(* is at least 2^14), so the digit estimated from the top two limbs of the *)
(* running remainder is at most two too large.                             *)
(***************************************************************************)
RECURSIVE FixDigit(_, _, _)
FixDigit(r, d, q) ==
    IF BCmp(BMulLimb(d, q), r) = 1 THEN FixDigit(r, d, q - 1) ELSE q

DivDigit(r, d) ==
    IF BCmp(r, d) = -1 THEN 0
    ELSE LET n   == Len(d)
             top == Limb(r, n + 1) * Base + Limb(r, n)
             est == top \div d[n]
         IN  FixDigit(r, d, IF est > Base - 1 THEN Base - 1 ELSE est)

\* <<quotient, remainder>> of a / d, the limbs of a taken from index i down
\* (Len(q) + Len(r) >= 0 has both evaluated before the next limb is taken)
RECURSIVE BDivAt(_, _, _, _, _)
BDivNext(a, d, i, q, r) == IF Len(q) + Len(r) >= 0 THEN BDivAt(a, d, i, q, r) ELSE <<>>

BDivDigit(a, d, i, q, r, dg) == BDivNext(a, d, i - 1, <<dg>> \o q, BSub(r, BMulLimb(d, dg)))

BDivStep(a, d, i, q, r) == BDivDigit(a, d, i, q, r, DivDigit(r, d))

BDivAt(a, d, i, q, r) ==
    IF i = 0 THEN <<BNorm(q), r>>
    ELSE BDivStep(a, d, i, q, BNorm(<<a[i]>> \o r))

\* the remainder of the shifted operands, shifted back
BDivOut(qr, sh) == <<qr[1], BShr(qr[2], sh)>>

BDivNormalised(a, d, sh) == BDivOut(BDivAt(a, d, Len(a), <<>>, <<>>), sh)

BDivShifted(a, d, sh) == BDivNormalised(BShl(a, sh), BShl(d, sh), sh)

BDivMod(a, d) == BDivShifted(a, d, 15 * Len(d) - BitLen(d))

\* b^k by repeated squaring, b one limb
RECURSIVE BPow(_, _)
BPow(b, k) ==
    IF k = 0 THEN <<1>>
    ELSE LET h == BPow(b, k \div 2)
         IN  IF k % 2 = 0 THEN BMul(h, h) ELSE BMulLimb(BMul(h, h), b)

Pow10(k) == BPow(10, k)

(***************************************************************************)
(* binary64 arithmetic, round to nearest, ties to even.                    *)
(***************************************************************************)
FZero(s) == [s |-> s, m |-> <<>>, e |-> 0]

IsZero(a) == a.m = <<>>

\* the mantissa m (MantBits or MantBits + 1 bits) brought back to MantBits bits
FRenorm(s, m, e) ==
    IF BitLen(m) > MantBits THEN [s |-> s, m |-> BShr(m, 1), e |-> e + 1]
    ELSE [s |-> s, m |-> m, e |-> e]

\* round to nearest, ties to even: c compares the bits cut off with one half
RoundsUp(c, sticky, keep) == c = 1 \/ (c = 0 /\ (sticky \/ keep[1] % 2 = 1))

FRoundUp(s, keep, e, up) == FRenorm(s, IF up THEN BAdd(keep, <<1>>) ELSE keep, e)

\* keep is n without its k lowest bits
FRoundCut(s, n, e, sticky, k, keep) ==
    FRoundUp(s, keep, e + k,
             RoundsUp(BCmp(BSub(n, BShl(keep, k)), BShl(<<1>>, k - 1)), sticky, keep))

\* L is the number of bits of n
FRoundBits(s, n, e, sticky, L) ==
    IF L <= MantBits
    THEN [s |-> s, m |-> BShl(n, MantBits - L), e |-> e - (MantBits - L)]
    ELSE FRoundCut(s, n, e, sticky, L - MantBits, BShr(n, L - MantBits))

\* the float nearest to (-1)^s * (n + f) * 2^e, where 0 <= f < 1 and
\* f > 0 exactly if sticky (then n has more than MantBits + 1 bits)
FRound(s, n, e, sticky) ==
    IF n = <<>> THEN FZero(s) ELSE FRoundBits(s, n, e, sticky, BitLen(n))

Pos(i) == IF i > 0 THEN i ELSE 0

FRatioRound(s, qr, e) == FRound(s, qr[1], e, qr[2] # <<>>)

\* the quotient of n * 2^t by d has at least MantBits + 2 bits
FRatioShifted(s, n, d, e, t) == FRatioRound(s, BDivMod(BShl(n, t), d), e - t)

\* the float nearest to (-1)^s * (n / d) * 2^e
FRatio(s, n, d, e) ==
    IF n = <<>> THEN FZero(s)
    ELSE FRatioShifted(s, n, d, e, Pos(MantBits + 3 + BitLen(d) - BitLen(n)))

FNeg(a) == [a EXCEPT !.s = 1 - a.s]

FAbs(a) == [a EXCEPT !.s = 0]

FMul(a, b) ==
    IF IsZero(a) \/ IsZero(b) THEN FZero((a.s + b.s) % 2)
    ELSE FRound((a.s + b.s) % 2, BMul(a.m, b.m), a.e + b.e, FALSE)

\* b is not zero (Python raises ZeroDivisionError there)
FDiv(a, b) ==
    IF IsZero(a) THEN FZero((a.s + b.s) % 2)
    ELSE FRatio((a.s + b.s) % 2, a.m, b.m, a.e - b.e)

\* -1, 0, 1 as |a| < |b|, |a| = |b|, |a| > |b|
MagCmp(a, b) ==
    IF IsZero(a) THEN (IF IsZero(b) THEN 0 ELSE -1)
    ELSE IF IsZero(b) THEN 1
    ELSE IF a.e < b.e THEN -1
    ELSE IF a.e > b.e THEN 1
    ELSE BCmp(a.m, b.m)

\* -1, 0, 1 as a < b, a = b, a > b
FCmp(a, b) ==
    IF IsZero(a) /\ IsZero(b) THEN 0
    ELSE IF IsZero(a) THEN (IF b.s = 0 THEN -1 ELSE 1)
    ELSE IF IsZero(b) THEN (IF a.s = 0 THEN 1 ELSE -1)
    ELSE IF a.s # b.s THEN (IF a.s = 0 THEN 1 ELSE -1)
    ELSE IF a.s = 0 THEN MagCmp(a, b)
    ELSE 0 - MagCmp(a, b)

FLt(a, b) == FCmp(a, b) = -1

FGt(a, b) == FCmp(a, b) = 1

FGe(a, b) == FCmp(a, b) >= 0

FEq(a, b) == FCmp(a, b) = 0

\* |a| + |b| or the difference of the two, am and bm the mantissas at the
\* common exponent e0 and c their comparison
FAddAligned(a, b, am, bm, e0, c) ==
    IF a.s = b.s THEN FRound(a.s, BAdd(am, bm), e0, FALSE)
    ELSE IF c = 0 THEN FZero(0)
    ELSE FRound(IF c = 1 THEN a.s ELSE b.s,
                IF c = 1 THEN BSub(am, bm) ELSE BSub(bm, am), e0, FALSE)

FAddAt(a, b, am, bm, e0) == FAddAligned(a, b, am, bm, e0, BCmp(am, bm))

FAddExp(a, b, e0) == FAddAt(a, b, BShl(a.m, a.e - e0), BShl(b.m, b.e - e0), e0)

FAdd(a, b) ==
    IF IsZero(a) /\ IsZero(b) THEN FZero(IF a.s = 1 /\ b.s = 1 THEN 1 ELSE 0)
    ELSE IF IsZero(b) THEN a
    ELSE IF IsZero(a) THEN b
    ELSE IF a.e - b.e > MantBits + 11 THEN a
    ELSE IF b.e - a.e > MantBits + 11 THEN b
    ELSE FAddExp(a, b, IF a.e < b.e THEN a.e ELSE b.e)

FSub(a, b) == FAdd(a, FNeg(b))

(***************************************************************************)
(* Decimal numerals.  A numeral [s, d, p] is the text of the number        *)
(* (-1)^s * d * 10^p (d a natural number); float() of it is the float      *)
(* nearest to that number.                                                 *)
(***************************************************************************)
Num(s, d, p) == [s |-> s, d |-> d, p |-> p]

float(t) ==
    IF t.p >= 0 THEN FRound(t.s, BMul(t.d, Pow10(t.p)), 0, FALSE)
    ELSE FRatio(t.s, t.d, Pow10(0 - t.p), 0)

\* the float of the literal n * 10^p, n an integer
Lit(n, p) == float(Num(IF n < 0 THEN 1 ELSE 0, BFromInt(IF n < 0 THEN 0 - n ELSE n), p))

(***************************************************************************)
(* repr() of a float: the shortest numeral that float() reads back as the  *)
(* same float (at most 17 significant digits are needed).                  *)
(***************************************************************************)
Pow2(k) == BShl(<<1>>, k)
\* m * 2^e compared with 10^k: -1, 0, 1
CmpPow10(m, e, k) ==
    BCmp(BMul(BShl(m, Pos(e)), Pow10(Pos(0 - k))), BMul(Pow2(Pos(0 - e)), Pow10(Pos(k))))

\* floor(log10 |f|) for a float f # 0
Log10(f) ==
    LET lo == ((f.e + MantBits - 1) * 30103) \div 100000
    IN  IF CmpPow10(f.m, f.e, lo + 1) >= 0 THEN lo + 1 ELSE lo

ScaledUp(q, c) == IF c = 1 \/ (c = 0 /\ Limb(q, 1) % 2 = 1) THEN BAdd(q, <<1>>) ELSE q

ScaledRound(qr, d) == ScaledUp(qr[1], BCmp(BMulLimb(qr[2], 2), d))

ScaledRatio(a, d) == ScaledRound(BDivMod(a, d), d)

\* the integer nearest to |f| / 10^p (ties to even)
Scaled(f, p) ==
    ScaledRatio(BMul(BShl(f.m, Pos(f.e)), Pow10(Pos(0 - p))),
                BMul(Pow2(Pos(0 - f.e)), Pow10(Pos(p))))

\* the numeral of f with n significant digits, for the least n from n on
\* that float() reads back as f
RECURSIVE ShortestFrom(_, _, _)
ShortestTry(f, k, n, t) ==
    IF n >= 17 \/ float(t) = f THEN t ELSE ShortestFrom(f, k, n + 1)

ShortestFrom(f, k, n) == ShortestTry(f, k, n, Num(f.s, Scaled(f, k - n + 1), k - n + 1))

repr(f) == IF IsZero(f) THEN Num(f.s, <<>>, 0) ELSE ShortestFrom(f, Log10(f), 1)

(***************************************************************************)
(* Python values.  A str is modelled for the texts the library reads and   *)
(* writes, "<numeral> <tail>": its numeral and the characters of its tail  *)
(* (the regular expressions allow any white space, also none, between the  *)
(* two).  A raised exception is a value of kind "raise".                   *)
(***************************************************************************)
PyFloat(v) == [kind |-> "float", value |-> v]

PyInt(v) == [kind |-> "int", value |-> v]

PyStr(num, tail) == [kind |-> "str", num |-> num, tail |-> tail]

PyBool(b) == [kind |-> "bool", value |-> b]

None == [kind |-> "None"]

Raise(exc) == [kind |-> "raise", exc |-> exc]

IsNumber(v) == v.kind \in {"int", "float"}

\* the float an int is compared as (n small and not negative)
IntToFloat(n) == FRound(0, BFromInt(n), 0, FALSE)

\* the chained comparison a > b >= c: b is evaluated once
ChainedGtGe(a, b, c) == FGt(a, b) /\ FGe(b, c)

(***************************************************************************)
(* metric.py: Scale                                                        *)
(***************************************************************************)
\* the members of the enum in the order of their definition (the order of
\* "for scale in Scale")
Scale == <<"NANO", "MICRO", "MILLI", "UNIT", "KILO", "MEGA", "GIGA">>

Scale_to_str(self) ==
    CASE self = "NANO" -> <<"n">>
      [] self = "MICRO" -> <<"u">>
      [] self = "MILLI" -> <<"m">>
      [] self = "UNIT" -> <<>>
      [] self = "KILO" -> <<"K">>
      [] self = "MEGA" -> <<"M">>
      [] self = "GIGA" -> <<"G">>

\* Scale.value_of of a member of the enum
Scale_value_of(s) == s

\* Scale.value_of of a str (its characters, none of them white space)
Scale_value_of_str(in_str) ==
    IF Len(in_str) = 0 THEN "UNIT"
    ELSE CASE in_str[1] = "n" -> "NANO"
           [] in_str[1] = "u" -> "MICRO"
           [] in_str[1] = "m" -> "MILLI"
           [] in_str[1] = "K" -> "KILO"
           [] in_str[1] = "M" -> "MEGA"
           [] in_str[1] = "G" -> "GIGA"
           [] OTHER -> Raise("RuntimeError")

(***************************************************************************)
(* metric.py: MetricValue                                                  *)
(***************************************************************************)
MetricValue(value, scale, phys_unit) ==
    [kind |-> "MetricValue", value |-> value, scale |-> scale, phys_unit |-> phys_unit]

IsMetricValue(v) == v.kind = "MetricValue"

MetricValue___str__(self) ==
    PyStr(repr(self.value), Scale_to_str(self.scale) \o self.phys_unit)

\* the groups scale and phys_unit of __matcher on a tail: the alternatives
\* n|u|m|K|M|G are tried first, the empty one only if \S+ then finds nothing
MetricValue___matcher_scale(tail) ==
    IF Len(tail) >= 2 /\ tail[1] \in {"n", "u", "m", "K", "M", "G"} THEN <<tail[1]>> ELSE <<>>

MetricValue___matcher_phys_unit(tail) ==
    SubSeq(tail, Len(MetricValue___matcher_scale(tail)) + 1, Len(tail))

MetricValue___matcher_match(s) ==
    /\ s.kind = "str"
    /\ Len(s.tail) >= 1
    /\ \A i \in 1..Len(s.tail) : s.tail[i] # " "

MetricValue_value_of(s) ==
    IF IsMetricValue(s) THEN s
    ELSE IF MetricValue___matcher_match(s)
    THEN MetricValue(float(s.num),
                     Scale_value_of_str(MetricValue___matcher_scale(s.tail)),
                     MetricValue___matcher_phys_unit(s.tail))
    ELSE Raise("RuntimeError")

\* a variant of to_float: the two multipliers taken the other way round
MetricValue_to_float_inverse(self, scale) ==
    FDiv(FMul(self.value, Scale_value[Scale_value_of(scale)]), Scale_value[self.scale])

MetricValue_to_float(self, scale) ==
    FDiv(FMul(self.value, Scale_value[self.scale]), Scale_value[Scale_value_of(scale)])

\* a variant of in_unit: the scale replaced and the value left as it was
MetricValue_in_unit_relabel(self, scale) ==
    MetricValue(self.value, Scale_value_of(scale), self.phys_unit)

MetricValue_in_unit(self, scale) ==
    LET target_scale == Scale_value_of(scale)
    IN  MetricValue(FDiv(FMul(self.value, Scale_value[self.scale]), Scale_value[target_scale]),
                    target_scale, self.phys_unit)

\* a variant of the test of the loop of optimize: 1000 >= abs(...) >= 1
MetricValue_optimize_test_closed(self, scale) ==
    /\ FGe(IntToFloat(1000), FAbs(MetricValue_to_float(self, scale)))
    /\ FGe(FAbs(MetricValue_to_float(self, scale)), IntToFloat(1))

\* the test of the loop of optimize: 1000 > abs(self.to_float(scale)) >= 1
MetricValue_optimize_test(self, scale) ==
    ChainedGtGe(IntToFloat(1000), FAbs(MetricValue_to_float(self, scale)), IntToFloat(1))

RECURSIVE MetricValue_optimize_loop(_, _)
MetricValue_optimize_loop(self, i) ==
    IF i > Len(Scale) THEN MetricValue_in_unit(self, "NANO")
    ELSE IF MetricValue_optimize_test(self, Scale[i]) THEN MetricValue_in_unit(self, Scale[i])
    ELSE MetricValue_optimize_loop(self, i + 1)

MetricValue_optimize(self) == MetricValue_optimize_loop(self, 1)

MetricValue___add__(self, other) ==
    IF IsMetricValue(other)
    THEN IF self.phys_unit # other.phys_unit THEN Raise("RuntimeError")
         ELSE MetricValue_optimize(
                  MetricValue(FAdd(self.value, MetricValue_to_float(other, self.scale)),
                              self.scale, self.phys_unit))
    ELSE Raise("RuntimeError")

MetricValue___sub__(self, other) ==
    IF IsMetricValue(other)
    THEN IF self.phys_unit # other.phys_unit THEN Raise("RuntimeError")
         ELSE MetricValue_optimize(
                  MetricValue(FSub(self.value, MetricValue_to_float(other, self.scale)),
                              self.scale, self.phys_unit))
    ELSE None

\* scale is a number
MetricValue___mul__(self, scale) ==
    MetricValue_optimize(MetricValue(FMul(self.value, scale.value), self.scale, self.phys_unit))

MetricValue___rmul__(self, scale) ==
    MetricValue_optimize(MetricValue(FMul(self.value, scale.value), self.scale, self.phys_unit))

MetricValue___truediv__(self, scale) ==
    IF IsZero(scale.value) THEN Raise("ZeroDivisionError")
    ELSE MetricValue_optimize(
             MetricValue(FDiv(self.value, scale.value), self.scale, self.phys_unit))

MetricValue___abs__(self) == MetricValue(FAbs(self.value), self.scale, self.phys_unit)

MetricValue___eq__(self, other) ==
    IF IsMetricValue(other)
    THEN IF self.phys_unit # other.phys_unit THEN Raise("RuntimeError")
         ELSE PyBool(FLt(MetricValue_to_float(
                             MetricValue___abs__(MetricValue___sub__(self, other)), "NANO"),
                         Lit(1, -3)))
    ELSE Raise("RuntimeError")

MetricValue___gt__(self, other) ==
    IF IsMetricValue(other)
    THEN IF self.phys_unit # other.phys_unit THEN Raise("RuntimeError")
         ELSE PyBool(FGt(self.value, MetricValue_to_float(other, self.scale)))
    ELSE Raise("RuntimeError")

MetricValue___ge__(self, other) ==
    IF IsMetricValue(other)
    THEN IF self.phys_unit # other.phys_unit THEN Raise("RuntimeError")
         ELSE IF FGt(self.value, MetricValue_to_float(other, self.scale)) THEN PyBool(TRUE)
         ELSE MetricValue___eq__(self, other)
    ELSE Raise("RuntimeError")

\* a variant of __lt__: the phys_units of the two are not compared
MetricValue___lt___unchecked(self, other) ==
    IF IsMetricValue(other)
    THEN PyBool(FLt(self.value, MetricValue_to_float(other, self.scale)))
    ELSE Raise("RuntimeError")

MetricValue___lt__(self, other) ==
    IF IsMetricValue(other)
    THEN IF self.phys_unit # other.phys_unit THEN Raise("RuntimeError")
         ELSE PyBool(FLt(self.value, MetricValue_to_float(other, self.scale)))
    ELSE Raise("RuntimeError")

MetricValue___le__(self, other) ==
    IF IsMetricValue(other)
    THEN IF self.phys_unit # other.phys_unit THEN Raise("RuntimeError")
         ELSE IF FLt(self.value, MetricValue_to_float(other, self.scale)) THEN PyBool(TRUE)
         ELSE MetricValue___eq__(self, other)
    ELSE Raise("RuntimeError")

(***************************************************************************)
(* time_domain.py: TimeUnit, Duration                                      *)
(***************************************************************************)
\* str.lower() on the letters of the unit names
lower(chars) ==
    [i \in 1..Len(chars) |->
        CASE chars[i] = "G" -> "g" [] chars[i] = "M" -> "m" [] chars[i] = "K" -> "k"
          [] chars[i] = "H" -> "h" [] chars[i] = "Z" -> "z" [] chars[i] = "S" -> "s"
          [] chars[i] = "N" -> "n" [] chars[i] = "U" -> "u" [] OTHER -> chars[i]]

\* TimeUnit.value_of of a member of the enum
TimeUnit_value_of(s) == s

\* TimeUnit.value_of of a str
TimeUnit_value_of_str(s) ==
    CASE lower(s) = <<"n", "s">> -> "NS"
      [] lower(s) = <<"u", "s">> -> "US"
      [] lower(s) = <<"m", "s">> -> "MS"
      [] lower(s) = <<"s">> -> "S"
      [] lower(s) = <<"k", "s">> -> "KS"
      [] OTHER -> Raise("RuntimeError")

TimeUnit_to_str(self) ==
    CASE self = "NS" -> <<"n", "s">>
      [] self = "US" -> <<"u", "s">>
      [] self = "MS" -> <<"m", "s">>
      [] self = "S" -> <<"s">>
      [] self = "KS" -> <<"k", "s">>
      [] OTHER -> Raise("RuntimeError")

Duration(time_interval, time_unit) ==
    [kind |-> "Duration", value |-> time_interval, time_unit |-> time_unit]

IsDuration(v) == v.kind = "Duration"

Duration___str__(self) == PyStr(repr(self.value), TimeUnit_to_str(self.time_unit))

Duration___matcher_match(s) ==
    /\ s.kind = "str"
    /\ s.tail \in {<<"k", "s">>, <<"s">>, <<"m", "s">>, <<"u", "s">>, <<"n", "s">>,
                   <<"K", "S">>, <<"S">>, <<"M", "S">>, <<"U", "S">>, <<"N", "S">>}

Duration_value_of(s) ==
    IF IsDuration(s) THEN s
    ELSE IF Duration___matcher_match(s)
    THEN Duration(float(s.num), TimeUnit_value_of_str(s.tail))
    ELSE Raise("RuntimeError")

Duration_to_float(self, time_unit) ==
    FDiv(FMul(self.value, TimeUnit_value[self.time_unit]),
         TimeUnit_value[TimeUnit_value_of(time_unit)])

Duration_in_unit(self, time_unit) ==
    LET target_time_unit == TimeUnit_value_of(time_unit)
    IN  Duration(FDiv(FMul(self.value, TimeUnit_value[self.time_unit]),
                      TimeUnit_value[target_time_unit]),
                 target_time_unit)

\* the units the loop of optimize tries, in its order
Duration_optimize_units == <<"KS", "S", "MS", "US", "NS">>

\* the test of the loop of optimize: 1000 > self.to_float(time_unit) >= 1
Duration_optimize_test(self, time_unit) ==
    ChainedGtGe(IntToFloat(1000), Duration_to_float(self, time_unit), IntToFloat(1))

RECURSIVE Duration_optimize_loop(_, _)
Duration_optimize_loop(self, i) ==
    IF i > Len(Duration_optimize_units) THEN Duration_in_unit(self, "NS")
    ELSE IF Duration_optimize_test(self, Duration_optimize_units[i])
    THEN Duration_in_unit(self, Duration_optimize_units[i])
    ELSE Duration_optimize_loop(self, i + 1)

Duration_optimize(self) == Duration_optimize_loop(self, 1)

Duration___add__(self, other) ==
    IF IsDuration(other)
    THEN Duration_optimize(
             Duration(FAdd(self.value, Duration_to_float(other, self.time_unit)),
                      self.time_unit))
    ELSE None

Duration___sub__(self, other) ==
    IF IsDuration(other)
    THEN Duration_optimize(
             Duration(FSub(self.value, Duration_to_float(other, self.time_unit)),
                      self.time_unit))
    ELSE None

\* a variant of __mul__: the product is optimized, as MetricValue does
Duration___mul___optimized(self, scale) ==
    Duration_optimize(Duration(FMul(self.value, scale.value), self.time_unit))

\* scale is a number
Duration___mul__(self, scale) == Duration(FMul(self.value, scale.value), self.time_unit)

Duration___rmul__(self, scale) == Duration(FMul(self.value, scale.value), self.time_unit)

Duration___truediv__(self, scale) ==
    IF IsZero(scale.value) THEN Raise("ZeroDivisionError")
    ELSE Duration(FDiv(self.value, scale.value), self.time_unit)

Duration___abs__(self) == Duration(FAbs(self.value), self.time_unit)

Duration___gt__(self, other) ==
    IF IsDuration(other)
    THEN PyBool(FGt(self.value, Duration_to_float(other, self.time_unit)))
    ELSE Raise("RuntimeError")

Duration___lt__(self, other) ==
    IF IsDuration(other)
    THEN PyBool(FLt(self.value, Duration_to_float(other, self.time_unit)))
    ELSE Raise("RuntimeError")

Duration___eq__(self, other) ==
    IF IsDuration(other)
    THEN Duration___lt__(Duration___abs__(Duration___sub__(self, other)), ONE_PICOSECOND)
    ELSE Raise("RuntimeError")

Duration___ge__(self, other) ==
    IF IsDuration(other)
    THEN IF FGt(self.value, Duration_to_float(other, self.time_unit)) THEN PyBool(TRUE)
         ELSE Duration___eq__(self, other)
    ELSE Raise("RuntimeError")

Duration___le__(self, other) ==
    IF IsDuration(other)
    THEN IF FLt(self.value, Duration_to_float(other, self.time_unit)) THEN PyBool(TRUE)
         ELSE Duration___eq__(self, other)
    ELSE Raise("RuntimeError")

(***************************************************************************)
(* time_domain.py: FrequencyUnit, Frequency                                *)
(***************************************************************************)
\* FrequencyUnit.value_of of a member of the enum
FrequencyUnit_value_of(src) == src

\* a variant of matching_time_unit: the units of KHz and MHz exchanged
FrequencyUnit_matching_time_unit_exchanged(self) ==
    CASE self = "Hz" -> "S"
      [] self = "KHz" -> "US"
      [] self = "MHz" -> "MS"
      [] self = "GHz" -> "NS"

FrequencyUnit_matching_time_unit(self) ==
    CASE self = "Hz" -> "S"
      [] self = "KHz" -> "MS"
      [] self = "MHz" -> "US"
      [] self = "GHz" -> "NS"

\* the value of the member: its label
FrequencyUnit_label(self) ==
    CASE self = "Hz" -> <<"H", "z">>
      [] self = "KHz" -> <<"K", "H", "z">>
      [] self = "MHz" -> <<"M", "H", "z">>
      [] self = "GHz" -> <<"G", "H", "z">>

Frequency(freq, unit) == [kind |-> "Frequency", freq |-> freq, unit |-> unit]

IsFrequency(v) == v.kind = "Frequency"

endswith(chars, suffix) ==
    /\ Len(chars) >= Len(suffix)
    /\ SubSeq(chars, Len(chars) - Len(suffix) + 1, Len(chars)) = suffix

\* float(src_clean.replace(suffix, "")) for a src_clean that ends with suffix:
\* what is left of the tail must be empty for float() to read the rest
Frequency_value_of_suffix(src, suffix, unit) ==
    IF Len(src.tail) = Len(suffix) THEN Frequency(float(src.num), unit)
    ELSE Raise("ValueError")

Frequency_value_of(src) ==
    IF IsFrequency(src) THEN src
    ELSE IF src.kind = "str"
    THEN CASE endswith(lower(src.tail), <<"g", "h", "z">>) ->
                  Frequency_value_of_suffix(src, <<"g", "h", "z">>, "GHz")
           [] endswith(lower(src.tail), <<"m", "h", "z">>) ->
                  Frequency_value_of_suffix(src, <<"m", "h", "z">>, "MHz")
           [] endswith(lower(src.tail), <<"k", "h", "z">>) ->
                  Frequency_value_of_suffix(src, <<"k", "h", "z">>, "KHz")
           [] endswith(lower(src.tail), <<"h", "z">>) ->
                  Frequency_value_of_suffix(src, <<"h", "z">>, "Hz")
           [] OTHER -> Raise("RuntimeError")
    ELSE Raise("ValueError")

\* as_float() without a unit
Frequency_as_float_None(self) == self.freq

Frequency_as_float(self, unit) ==
    FDiv(FMul(self.freq, FrequencyUnit_period_in_seconds[FrequencyUnit_value_of(unit)]),
         FrequencyUnit_period_in_seconds[self.unit])

Frequency_in_unit(self, unit) ==
    Frequency(Frequency_as_float(self, unit), FrequencyUnit_value_of(unit))

Frequency___repr__(self) == PyStr(repr(self.freq), FrequencyUnit_label(self.unit))

Frequency___add__(self, other) ==
    IF IsFrequency(other)
    THEN Frequency(FAdd(self.freq, Frequency_as_float(other, self.unit)), self.unit)
    ELSE Raise("ValueError")

Frequency___sub__(self, other) ==
    IF IsFrequency(other)
    THEN Frequency(FSub(self.freq, Frequency_as_float(other, self.unit)), self.unit)
    ELSE Raise("ValueError")

Frequency___rtruediv__(self, other) ==
    IF IsNumber(other)
    THEN IF IsZero(Frequency_as_float_None(self)) THEN Raise("ZeroDivisionError")
         ELSE Duration(FDiv(IntToFloat(1), Frequency_as_float_None(self)),
                       FrequencyUnit_matching_time_unit(self.unit))
    ELSE Raise("ValueError")

Frequency___truediv__(self, other) ==
    IF IsNumber(other)
    THEN IF IsZero(other.value) THEN Raise("ZeroDivisionError")
         ELSE Frequency(FDiv(self.freq, other.value), self.unit)
    ELSE Raise("ValueError")

Frequency___rmul__(self, other) ==
    IF IsNumber(other) THEN Frequency(FMul(other.value, self.freq), self.unit)
    ELSE Raise("ValueError")

Frequency___mul__(self, other) ==
    IF IsNumber(other) THEN Frequency(FMul(self.freq, other.value), self.unit)
    ELSE Raise("ValueError")

Frequency___lt__(self, other) ==
    IF ~IsFrequency(other) THEN Raise("TypeError")
    ELSE PyBool(FLt(self.freq, Frequency_as_float(other, self.unit)))

Frequency___eq__(self, other) ==
    IF ~IsFrequency(other) THEN PyBool(FALSE)
    ELSE IF self.unit = other.unit THEN PyBool(FEq(self.freq, other.freq))
    ELSE PyBool(FEq(self.freq, Frequency_as_float(other, self.unit)))

Frequency___le__(self, other) ==
    IF Frequency___eq__(self, other).value THEN PyBool(TRUE)
    ELSE Frequency___lt__(self, other)

(***************************************************************************)
(* The state machine.  A caller holds a receiver x and an argument y and   *)
(* calls one method of the library at a time: r is what the call returned  *)
(* (or the exception it raised) and op the name of the method.  The caller *)
(* may go on with a result as the next receiver (Use): origin is the name  *)
(* of the call that produced x ("input" for a value the caller built) and  *)
(* n the number of results passed on so far.                               *)
(***************************************************************************)
VARIABLES x, y, r, op, origin, n

\* the state of the caller and the state of the modules together
vars == <<x, y, r, op, origin, n, globals>>

\* the bounds of the model: how many results the caller passes on, and how
\* many of the listed inputs it starts from
MaxChain == 2

NumMagnitudes == 9

NumMetric == 8

NumDuration == 9

NumFrequency == 3

NumScalars == 3

NumTexts == 6

NumTextMagnitudes == 4

\* no call has returned yet
Unset == [kind |-> "unset"]

\* a call of the method name returns result: the objects of the library are
\* never assigned to after __init__, so receiver and argument stay as they are
Call(name, result) ==
    /\ r' = result
    /\ op' = name
    /\ UNCHANGED <<x, y, origin, n, globals>>

Call_MetricValue_value_of ==
    /\ x.kind \in {"str", "MetricValue"}
    /\ Call("value_of", MetricValue_value_of(x))

Call_MetricValue___str__ == IsMetricValue(x) /\ Call("__str__", MetricValue___str__(x))

Call_MetricValue_optimize == IsMetricValue(x) /\ Call("optimize", MetricValue_optimize(x))

Call_MetricValue___add__ == IsMetricValue(x) /\ Call("__add__", MetricValue___add__(x, y))

Call_MetricValue___sub__ == IsMetricValue(x) /\ Call("__sub__", MetricValue___sub__(x, y))

Call_MetricValue___mul__ ==
    IsMetricValue(x) /\ IsNumber(y) /\ Call("__mul__", MetricValue___mul__(x, y))

Call_MetricValue___rmul__ ==
    IsMetricValue(x) /\ IsNumber(y) /\ Call("__rmul__", MetricValue___rmul__(x, y))

Call_MetricValue___truediv__ ==
    IsMetricValue(x) /\ IsNumber(y) /\ Call("__truediv__", MetricValue___truediv__(x, y))

Call_MetricValue___gt__ == IsMetricValue(x) /\ Call("__gt__", MetricValue___gt__(x, y))

Call_MetricValue___ge__ == IsMetricValue(x) /\ Call("__ge__", MetricValue___ge__(x, y))

Call_MetricValue___lt__ == IsMetricValue(x) /\ Call("__lt__", MetricValue___lt__(x, y))

Call_MetricValue___le__ == IsMetricValue(x) /\ Call("__le__", MetricValue___le__(x, y))

Call_MetricValue___eq__ == IsMetricValue(x) /\ Call("__eq__", MetricValue___eq__(x, y))

Call_Duration_value_of ==
    /\ x.kind \in {"str", "Duration"}
    /\ Call("value_of", Duration_value_of(x))

Call_Duration___str__ == IsDuration(x) /\ Call("__str__", Duration___str__(x))

Call_Duration_optimize == IsDuration(x) /\ Call("optimize", Duration_optimize(x))

Call_Duration___add__ == IsDuration(x) /\ Call("__add__", Duration___add__(x, y))

Call_Duration___sub__ == IsDuration(x) /\ Call("__sub__", Duration___sub__(x, y))

Call_Duration___mul__ ==
    IsDuration(x) /\ IsNumber(y) /\ Call("__mul__", Duration___mul__(x, y))

Call_Duration___rmul__ ==
    IsDuration(x) /\ IsNumber(y) /\ Call("__rmul__", Duration___rmul__(x, y))

Call_Duration___truediv__ ==
    IsDuration(x) /\ IsNumber(y) /\ Call("__truediv__", Duration___truediv__(x, y))

Call_Duration___gt__ == IsDuration(x) /\ Call("__gt__", Duration___gt__(x, y))

Call_Duration___ge__ == IsDuration(x) /\ Call("__ge__", Duration___ge__(x, y))

Call_Duration___lt__ == IsDuration(x) /\ Call("__lt__", Duration___lt__(x, y))

Call_Duration___le__ == IsDuration(x) /\ Call("__le__", Duration___le__(x, y))

Call_Duration___eq__ == IsDuration(x) /\ Call("__eq__", Duration___eq__(x, y))

Call_Frequency_value_of ==
    /\ x.kind \in {"str", "Frequency"}
    /\ Call("value_of", Frequency_value_of(x))

Call_Frequency___repr__ == IsFrequency(x) /\ Call("__repr__", Frequency___repr__(x))

Call_Frequency___add__ == IsFrequency(x) /\ Call("__add__", Frequency___add__(x, y))

Call_Frequency___sub__ == IsFrequency(x) /\ Call("__sub__", Frequency___sub__(x, y))

\* the reflected operators are reached when y is a number, a str or None (a
\* MetricValue or a Duration on the left has a __truediv__ and a __mul__ of
\* its own, and a Frequency on the left is taken by Frequency.__truediv__)
Reflects(v) == v.kind \in {"int", "float", "str", "None"}

\* y / x
Call_Frequency___rtruediv__ ==
    IsFrequency(x) /\ Reflects(y) /\ Call("__rtruediv__", Frequency___rtruediv__(x, y))

Call_Frequency___truediv__ ==
    IsFrequency(x) /\ Call("__truediv__", Frequency___truediv__(x, y))

\* y * x
Call_Frequency___rmul__ ==
    IsFrequency(x) /\ Reflects(y) /\ Call("__rmul__", Frequency___rmul__(x, y))

Call_Frequency___mul__ == IsFrequency(x) /\ Call("__mul__", Frequency___mul__(x, y))

Call_Frequency___lt__ == IsFrequency(x) /\ Call("__lt__", Frequency___lt__(x, y))

Call_Frequency___le__ == IsFrequency(x) /\ Call("__le__", Frequency___le__(x, y))

Call_Frequency___eq__ == IsFrequency(x) /\ Call("__eq__", Frequency___eq__(x, y))

\* the caller goes on with the result as the receiver of the next call
Use ==
    /\ n < MaxChain
    /\ r.kind \in {"MetricValue", "Duration", "Frequency", "str"}
    /\ x' = r
    /\ origin' = op
    /\ n' = n + 1
    /\ r' = Unset
    /\ op' = ""
    /\ UNCHANGED <<y, globals>>

\* the modules as they are once imported: the members of the enums have their
\* values (the ints of TimeUnit are converted to float wherever they are used:
\* they are kept as those floats), and ONE_PICOSECOND is parsed from its text
Import ==
    /\ Scale_value =
           [NANO |-> Lit(1, -9), MICRO |-> Lit(1, -6), MILLI |-> Lit(1, -3), UNIT |-> Lit(1, 0),
            KILO |-> Lit(1, 3), MEGA |-> Lit(1, 6), GIGA |-> Lit(1, 9)]
    /\ TimeUnit_value =
           [NS |-> Lit(1, 0), US |-> Lit(1, 3), MS |-> Lit(1, 6), S |-> Lit(1, 9),
            KS |-> Lit(1, 12)]
    /\ FrequencyUnit_period_in_seconds =
           [Hz |-> Lit(1, 0), KHz |-> Lit(1, -3), MHz |-> Lit(1, -6), GHz |-> Lit(1, -9)]
    /\ ONE_PICOSECOND = Duration_value_of(PyStr(Num(0, <<1>>, -3), <<"n", "s">>))

\* the caller has built x and y and has called nothing yet
Start(xs, ys) ==
    /\ Import
    /\ x \in xs
    /\ y \in ys
    /\ r = Unset
    /\ op = ""
    /\ origin = "input"
    /\ n = 0

\* the first k elements of a list, as a set
Take(list, k) == {list[i] : i \in 1..(IF k < Len(list) THEN k ELSE Len(list))}

(***************************************************************************)
(* optimize(), once and again on its own result.                           *)
(***************************************************************************)
Magnitudes ==
    <<Lit(0, 0), Lit(9, -4), Lit(5, -1), Lit(1, 0), Lit(999999, -3), Lit(1000, 0),
      Lit(5000, 0), Lit(-3, 0), Lit(1234567, -1), Lit(-4, -4), Lit(9999999, -4)>>

OptimizeInputs ==
    {MetricValue(v, Scale[i], <<"B">>) : v \in Take(Magnitudes, NumMagnitudes), i \in 1..Len(Scale)}
        \cup {Duration(v, u) : v \in Take(Magnitudes, NumMagnitudes),
                               u \in {"NS", "US", "MS", "S", "KS"}}

InitOptimize == Start(OptimizeInputs, {None})

NextOptimize ==
    \/ Call_MetricValue_optimize
    \/ Call_Duration_optimize
    \/ Use

SpecOptimize == InitOptimize /\ [][NextOptimize]_vars

(***************************************************************************)
(* Arithmetic and comparisons: one call on a receiver and an argument.     *)
(***************************************************************************)
ArithMetric ==
    <<MetricValue(Lit(1, 0), "KILO", <<"c", "y", "c", "l", "e", "s">>),
      MetricValue(Lit(1, 0), "UNIT", <<"s">>),
      MetricValue(Lit(69, -1), "KILO", <<"B">>),
      MetricValue(Lit(1987, -1), "GIGA", <<"B">>),
      MetricValue(Lit(999999, -3), "UNIT", <<"B">>),
      MetricValue(Lit(5, -1), "NANO", <<"B">>),
      MetricValue(Lit(-3, 0), "MILLI", <<"s">>),
      MetricValue(Lit(0, 0), "UNIT", <<"B">>),
      MetricValue(Lit(2500, 0), "MEGA", <<"c", "y", "c", "l", "e", "s">>)>>

ArithDuration ==
    <<Duration(Lit(1, 0), "NS"),
      Duration(Lit(10009, -4), "NS"),
      Duration(Lit(1002, -3), "NS"),
      Duration(Lit(1, -3), "NS"),
      Duration(Lit(0, 0), "NS"),
      Duration(Lit(1, -3), "US"),
      Duration(Lit(999, -3), "NS"),
      Duration(Lit(1184, -1), "KS"),
      Duration(Lit(-738, -1), "MS"),
      Duration(Lit(2500, 0), "S")>>

ArithFrequency ==
    <<Frequency(Lit(2, 0), "GHz"),
      Frequency(Lit(35, -1), "KHz"),
      Frequency(Lit(0, 0), "Hz"),
      Frequency(Lit(2000, 0), "MHz"),
      Frequency(Lit(-5, -1), "Hz")>>

Scalars == <<PyInt(Lit(1, 0)), PyInt(Lit(1000, 0)), PyFloat(Lit(5, -1)), PyInt(Lit(0, 0)),
             PyInt(Lit(-3, 0)), PyFloat(Lit(35, -1))>>

\* a str
SomeText == PyStr(Num(0, <<1>>, 0), <<"s">>)

Metrics == Take(ArithMetric, NumMetric)

Durations == Take(ArithDuration, NumDuration)

Frequencies == Take(ArithFrequency, NumFrequency)

\* the arguments a receiver is called with: the values of its own class, the
\* numbers, and values that are neither (a str, None, a value of another class)
ArgumentsOf(v) ==
    Take(Scalars, NumScalars) \cup {SomeText, None}
        \cup CASE IsMetricValue(v) -> Metrics \cup {ArithDuration[1]}
               [] IsDuration(v) -> Durations \cup {ArithFrequency[1]}
               [] IsFrequency(v) -> Frequencies \cup {ArithMetric[1]}

Init ==
    /\ Import
    /\ x \in Metrics \cup Durations \cup Frequencies
    /\ y \in ArgumentsOf(x)
    /\ r = Unset
    /\ op = ""
    /\ origin = "input"
    /\ n = 0

Next ==
    \/ Call_MetricValue___add__
    \/ Call_MetricValue___sub__
    \/ Call_MetricValue___mul__
    \/ Call_MetricValue___rmul__
    \/ Call_MetricValue___truediv__
    \/ Call_MetricValue___gt__
    \/ Call_MetricValue___ge__
    \/ Call_MetricValue___lt__
    \/ Call_MetricValue___le__
    \/ Call_MetricValue___eq__
    \/ Call_Duration___add__
    \/ Call_Duration___sub__
    \/ Call_Duration___mul__
    \/ Call_Duration___rmul__
    \/ Call_Duration___truediv__
    \/ Call_Duration___gt__
    \/ Call_Duration___ge__
    \/ Call_Duration___lt__
    \/ Call_Duration___le__
    \/ Call_Duration___eq__
    \/ Call_Frequency___add__
    \/ Call_Frequency___sub__
    \/ Call_Frequency___rtruediv__
    \/ Call_Frequency___truediv__
    \/ Call_Frequency___rmul__
    \/ Call_Frequency___mul__
    \/ Call_Frequency___lt__
    \/ Call_Frequency___le__
    \/ Call_Frequency___eq__

Spec == Init /\ [][Next]_vars

(***************************************************************************)
(* Texts: parsing, rendering, and the period of a parsed frequency.        *)
(***************************************************************************)
Texts ==
    <<PyStr(Num(0, <<2>>, 0), <<"G", "H", "z">>),
      PyStr(Num(0, <<35>>, -1), <<"K", "H", "z">>),
      PyStr(Num(0, <<5>>, -1), <<"n", "s">>),
      PyStr(Num(0, <<1>>, 0), <<"K", "c", "y", "c", "l", "e", "s">>),
      PyStr(Num(0, <<1>>, 0), <<"s">>),
      PyStr(Num(0, <<25>>, 2), <<"m", "H", "z">>),
      PyStr(Num(1, <<12>>, -1), <<"u", "F">>),
      PyStr(Num(0, <<7>>, 0), <<"K", "S">>)>>

TextInputs ==
    Take(Texts, NumTexts)
        \cup {MetricValue(v, s, u) : v \in Take(Magnitudes, NumTextMagnitudes),
                                     s \in {"UNIT", "MEGA"},
                                     u \in {<<"B">>, <<"m", "o", "l">>, <<"m">>}}
        \cup {Duration(v, u) : v \in Take(Magnitudes, NumTextMagnitudes), u \in {"US", "KS"}}
        \cup {Frequency(v, u) : v \in Take(Magnitudes, NumTextMagnitudes), u \in {"Hz", "GHz"}}

InitText == Start(TextInputs, Take(Scalars, NumScalars))

NextText ==
    \/ Call_MetricValue_value_of
    \/ Call_MetricValue___str__
    \/ Call_MetricValue_optimize
    \/ Call_Duration_value_of
    \/ Call_Duration___str__
    \/ Call_Duration_optimize
    \/ Call_Frequency_value_of
    \/ Call_Frequency___repr__
    \/ Call_Frequency___rtruediv__
    \/ Use

SpecText == InitText /\ [][NextText]_vars

(***************************************************************************)
(* The properties.  They are stated on the states a call has returned in:  *)
(* x and y are the operands of the call op, r its result.                  *)
(***************************************************************************)
\* the ladder of scales, finest first, and the power of ten of each scale
\* counted in nano
Ladder == <<"NANO", "MICRO", "MILLI", "UNIT", "KILO", "MEGA", "GIGA">>

NanoDigits(scale) ==
    CASE scale = "NANO" -> 0 [] scale = "MICRO" -> 3 [] scale = "MILLI" -> 6
      [] scale = "UNIT" -> 9 [] scale = "KILO" -> 12 [] scale = "MEGA" -> 15
      [] scale = "GIGA" -> 18

\* 1 <= |f| < 1000
InBand(f) == FGe(FAbs(f), IntToFloat(1)) /\ FLt(FAbs(f), IntToFloat(1000))

\* the indices of the scales of the ladder at which v lies in the band
Qualifying(v) == {i \in 1..Len(Ladder) : InBand(MetricValue_to_float(v, Ladder[i]))}

Least(S) == CHOOSE i \in S : \A j \in S : i <= j

Largest(a, b, c) == IF a >= b /\ a >= c THEN a ELSE IF b >= c THEN b ELSE c

\* |f| * 10^digits * 2^k as a natural number (k is large enough for that)
Exact(f, digits, k) == BMul(BShl(f.m, f.e + k), Pow10(digits))

BDist(a, b) == IF BCmp(a, b) >= 0 THEN BSub(a, b) ELSE BSub(b, a)

\* the physical amounts value * multiplier of the quantities a and b, computed
\* without rounding, agree to 50 bits (a rescaling rounds its product and its
\* quotient, and the multipliers below one are themselves rounded)
SameAmount(a, b) ==
    IF IsZero(a.value) \/ IsZero(b.value) THEN IsZero(a.value) /\ IsZero(b.value)
    ELSE /\ a.value.s = b.value.s
         /\ LET k  == Largest(0, 0 - a.value.e, 0 - b.value.e)
                ea == Exact(a.value, NanoDigits(a.scale), k)
                eb == Exact(b.value, NanoDigits(b.scale), k)
            IN  BCmp(BShl(BDist(ea, eb), 50), ea) <= 0

\* C1: optimize() of a MetricValue raises nothing and returns the quantity
\* rescaled (same phys_unit, the value to_float gives, the same amount) to the
\* first scale of the ladder nano .. giga at which 1 <= |to_float| < 1000, and
\* to nano if there is none, as for zero, below 1 nano and from 1000 giga on;
\* 999.999 at unit scale stays there and 1000 at unit scale becomes 1 kilo.
C1_optimize_first_scale_in_band ==
    (op = "optimize" /\ IsMetricValue(x)) =>
        /\ IsMetricValue(r)
        /\ r.phys_unit = x.phys_unit
        /\ IF Qualifying(x) # {}
           THEN /\ r.scale = Ladder[Least(Qualifying(x))]
                /\ r.value = MetricValue_to_float(x, Ladder[Least(Qualifying(x))])
           ELSE /\ r.scale = "NANO"
                /\ r.value = MetricValue_to_float(x, "NANO")
        /\ SameAmount(x, r)
        /\ (IsZero(x.value) => r.scale = "NANO")
        /\ (FLt(FAbs(MetricValue_to_float(x, "NANO")), IntToFloat(1)) => r.scale = "NANO")
        /\ (FGe(FAbs(MetricValue_to_float(x, "GIGA")), IntToFloat(1000)) => r.scale = "NANO")
        /\ (x.value = Lit(999999, -3) /\ x.scale = "UNIT" => r.scale = "UNIT")
        /\ (x.value = Lit(1000, 0) /\ x.scale = "UNIT"
                => r.scale = "KILO" /\ r.value = Lit(1, 0))

C1_witness ==
    /\ op = "optimize"
    /\ x = MetricValue(Lit(1000, 0), "UNIT", <<"B">>)
    /\ r = MetricValue(Lit(1, 0), "KILO", <<"B">>)

\* C6: optimize() applied to a result of optimize() returns a value with the
\* same scale or time unit and the same magnitude, bit for bit.
C6_optimize_idempotent == (origin = "optimize" /\ op = "optimize") => r = x

C6_witness ==
    /\ origin = "optimize"
    /\ op = "optimize"
    /\ IsDuration(x)
    /\ x.time_unit = "US"
    /\ r = x

\* C8 as stated: MetricValue(0.0009, unit, "B").optimize() finds no scale in
\* the band and falls back to nano, 900000 nB.
C8_as_stated ==
    (op = "optimize" /\ x = MetricValue(Lit(9, -4), "UNIT", <<"B">>)) =>
        /\ Qualifying(x) = {}
        /\ r.scale = "NANO"
        /\ FEq(r.value, Lit(900000, 0))

\* C8, corrected: MetricValue(0.0009, unit, "B").optimize() does not fall
\* back: at nano the value is 900000, outside the band, and micro is the first
\* scale in the band, so the result is 900 uB.
C8_micro_not_fallback ==
    (op = "optimize" /\ x = MetricValue(Lit(9, -4), "UNIT", <<"B">>)) =>
        /\ ~InBand(MetricValue_to_float(x, "NANO"))
        /\ InBand(MetricValue_to_float(x, "MICRO"))
        /\ r = MetricValue(Lit(900, 0), "MICRO", <<"B">>)

C8_witness ==
    /\ op = "optimize"
    /\ x = MetricValue(Lit(9, -4), "UNIT", <<"B">>)
    /\ r.scale = "MICRO"

\* the calls that take an operand of the class of the receiver
SameClassCalls == {"__add__", "__sub__", "__gt__", "__ge__", "__lt__", "__le__", "__eq__"}

\* C2: with two MetricValues of different phys_unit each of + - > >= < <= ==
\* raises and returns nothing, whatever the magnitudes and scales; so does
\* adding the parse of "1 s" to the parse of "1 Kcycles".
C2_unit_mismatch_raises ==
    /\ (/\ op \in SameClassCalls
        /\ IsMetricValue(x)
        /\ IsMetricValue(y)
        /\ x.phys_unit # y.phys_unit) => r.kind = "raise"
    /\ (/\ op = "__add__"
        /\ x = MetricValue_value_of(PyStr(Num(0, <<1>>, 0), <<"K", "c", "y", "c", "l", "e", "s">>))
        /\ y = MetricValue_value_of(PyStr(Num(0, <<1>>, 0), <<"s">>))) => r.kind = "raise"

C2_witness ==
    /\ op = "__ge__"
    /\ IsMetricValue(x)
    /\ IsMetricValue(y)
    /\ x.phys_unit = <<"B">>
    /\ y.phys_unit = <<"s">>
    /\ r = Raise("RuntimeError")

\* the power of ten of each time unit counted in ns
NsDigits(time_unit) ==
    CASE time_unit = "NS" -> 0 [] time_unit = "US" -> 3 [] time_unit = "MS" -> 6
      [] time_unit = "S" -> 9 [] time_unit = "KS" -> 12

\* | a - b | in ns, computed without rounding, is less than 1/1000
WithinPicosecond(a, b) ==
    LET k  == Largest(0, 0 - a.value.e, 0 - b.value.e)
        ea == Exact(a.value, NsDigits(a.time_unit) + 3, k)
        eb == Exact(b.value, NsDigits(b.time_unit) + 3, k)
    IN  BCmp(IF a.value.s = b.value.s THEN BDist(ea, eb) ELSE BAdd(ea, eb), Pow2(k)) = -1

\* C3 as stated: a == b on two Durations, in any units and either order, is
\* true exactly if the absolute difference of the two in ns is less than 0.001.
C3_as_stated ==
    (op = "__eq__" /\ IsDuration(x) /\ IsDuration(y)) => r = PyBool(WithinPicosecond(x, y))

\* C7 as stated: a + b and b + a of two MetricValues of one phys_unit, or of
\* two Durations, compare == and have the same scale or unit and magnitude.
C7_as_stated ==
    /\ (op = "__add__" /\ IsMetricValue(x) /\ IsMetricValue(y) /\ x.phys_unit = y.phys_unit)
           => /\ MetricValue___eq__(r, MetricValue___add__(y, x)) = PyBool(TRUE)
              /\ r = MetricValue___add__(y, x)
    /\ (op = "__add__" /\ IsDuration(x) /\ IsDuration(y))
           => /\ Duration___eq__(r, Duration___add__(y, x)) = PyBool(TRUE)
              /\ r = Duration___add__(y, x)

\* the call got an operand of the wrong kind: no value of the class of the
\* receiver where one is needed, or no number where a Frequency needs one
WrongKind ==
    \/ op \in SameClassCalls /\ y.kind # x.kind
    \/ /\ op \in {"__mul__", "__rmul__", "__truediv__", "__rtruediv__"}
       /\ IsFrequency(x)
       /\ ~IsNumber(y)

\* C9 as stated: an arithmetic or comparison operator of MetricValue, Duration
\* or Frequency that gets an operand of the wrong kind raises, and returns no
\* value.
C9_as_stated == WrongKind => r.kind = "raise"

\* the result of the last call is as the renormalization policy has it
Renormalized ==
    /\ (/\ IsMetricValue(x)
        /\ \/ op \in {"__add__", "__sub__"} /\ IsMetricValue(y) /\ x.phys_unit = y.phys_unit
           \/ op \in {"__mul__", "__rmul__"} /\ IsNumber(y)
           \/ op = "__truediv__" /\ IsNumber(y) /\ ~IsZero(y.value))
           => IsMetricValue(r) /\ MetricValue_optimize(r) = r
    /\ (IsDuration(x) /\ op \in {"__add__", "__sub__"} /\ IsDuration(y))
           => IsDuration(r) /\ Duration_optimize(r) = r
    /\ (IsDuration(x) /\ op \in {"__mul__", "__rmul__"} /\ IsNumber(y))
           => r = Duration(FMul(x.value, y.value), x.time_unit)
    /\ (IsDuration(x) /\ op = "__truediv__" /\ IsNumber(y) /\ ~IsZero(y.value))
           => r = Duration(FDiv(x.value, y.value), x.time_unit)
    /\ (/\ IsFrequency(x)
        /\ \/ op \in {"__add__", "__sub__"} /\ IsFrequency(y)
           \/ op \in {"__mul__", "__rmul__"} /\ IsNumber(y)
           \/ op = "__truediv__" /\ IsNumber(y) /\ ~IsZero(y.value))
           => IsFrequency(r) /\ r.unit = x.unit

\* C10: MetricValue + - * / return an optimized value; Duration + - return an
\* optimized value, Duration * and / by a number return the product or the
\* quotient in the time unit of the receiver, not renormalized; Frequency
\* + - * / return a Frequency in the unit of the receiver; and no call changes
\* its receiver or its argument.
C10_renormalization_and_frame == []Renormalized /\ [][x' = x /\ y' = y]_vars

C10_witness ==
    /\ op = "__mul__"
    /\ IsDuration(x)
    /\ IsNumber(y)
    /\ r.time_unit = x.time_unit
    /\ ~InBand(r.value)
    /\ Duration_optimize(r) # r

\* the table the period of a frequency takes its time unit from
PeriodUnit(unit) ==
    CASE unit = "GHz" -> "NS" [] unit = "MHz" -> "US" [] unit = "KHz" -> "MS" [] unit = "Hz" -> "S"

\* C4: k / f, for a Frequency f of magnitude v # 0 and a number k, is the
\* Duration of value 1 / v in the time unit the table gives for the unit of f;
\* 1 / parse("2GHz") == parse("0.5ns"), and 1 / parse("3.5 KHz") optimizes to a
\* Duration in us of value 1000 / 3.5.
C4_period_of_frequency ==
    /\ (op = "__rtruediv__" /\ IsFrequency(x) /\ IsNumber(y) /\ ~IsZero(x.freq))
           => r = Duration(FDiv(IntToFloat(1), x.freq), PeriodUnit(x.unit))
    /\ (/\ op = "__rtruediv__"
        /\ origin = "value_of"
        /\ x = Frequency(Lit(2, 0), "GHz")
        /\ y = PyInt(Lit(1, 0)))
           => Duration___eq__(r, Duration_value_of(PyStr(Num(0, <<5>>, -1), <<"n", "s">>)))
                  = PyBool(TRUE)
    /\ (/\ op = "optimize"
        /\ origin = "__rtruediv__"
        /\ x = Duration(FDiv(IntToFloat(1), Lit(35, -1)), "MS"))
           => /\ r.time_unit = "US"
              /\ Duration___eq__(r, Duration(FDiv(Lit(1000, 0), Lit(35, -1)), "US"))
                     = PyBool(TRUE)

C4_witness ==
    /\ op = "__rtruediv__"
    /\ origin = "value_of"
    /\ x = Frequency(Lit(2, 0), "GHz")
    /\ y = PyInt(Lit(1, 0))
    /\ r = Duration(Lit(5, -1), "NS")

\* C5 as stated: the text of a MetricValue or a Duration that optimize()
\* returned, and of any Frequency, parses, and to a value that compares == to
\* the one rendered; for a MetricValue also if its phys_unit begins with one
\* of n, u, m, K, M, G and its scale is unit.
C5_as_stated ==
    /\ (op = "__str__" /\ origin = "optimize" /\ IsMetricValue(x))
           => /\ IsMetricValue(MetricValue_value_of(r))
              /\ MetricValue___eq__(MetricValue_value_of(r), x) = PyBool(TRUE)
    /\ (op = "__str__" /\ origin = "optimize" /\ IsDuration(x))
           => /\ IsDuration(Duration_value_of(r))
              /\ Duration___eq__(Duration_value_of(r), x) = PyBool(TRUE)
    /\ (op = "__repr__" /\ IsFrequency(x))
           => /\ IsFrequency(Frequency_value_of(r))
              /\ Frequency___eq__(Frequency_value_of(r), x) = PyBool(TRUE)

====
